---- MODULE Spec2Model ----
(***************************************************************************)
(* State-machine model of src/handler/CloudFront/imageResizer.ts: the      *)
(* Lambda@Edge origin-response handler that fetches an image from S3,      *)
(* resizes it with Sharp and answers through the completion callback.      *)
(*                                                                         *)
(* One action per JavaScript run-to-completion job: the synchronous body   *)
(* of the handler, the S3.getObject callback, the two settlements of the   *)
(* Sharp promise, and the passage of time (which runs a due timer).        *)
(***************************************************************************)
EXTENDS Integers, Sequences, FiniteSets, TLC

VARIABLES
  pc,                      \* "idle" | "fetching" | "resizing" | "done"
  event,                   \* event.Records[0].cf of the invocation
  now,                     \* milliseconds since the invocation
  timer,                   \* "none" | "armed" | "cleared" | "fired"
  responseSuccessHeader,   \* status / statusDescription of that object
  successHeaders,          \* the headers object shared by responseSuccessHeader and response
  response,                \* status / statusDescription / bodyEncoding / body
  failResponse,            \* the whole failure envelope
  s3Calls,                 \* S3.getObject requests issued
  probeCalls,              \* number of sizeOf calls
  codecCalls,              \* Sharp pipelines started
  data,                    \* (err, data) the store handed to the getObject callback
  size,                    \* what sizeOf returned
  settled,                 \* the Sharp promise: "none" | "pending" | "fulfilled" | "rejected"
  delivered,               \* invocations of the completion callback, in order
  uncaught                 \* an exception escaped a timer job

vars == <<pc, event, now, timer, responseSuccessHeader, successHeaders, response,
          failResponse, s3Calls, probeCalls, codecCalls, data, size, settled, delivered,
          uncaught>>

----------------------------------------------------------------------------
(* Bounds of the model *)

\* number of clock steps explored
MaxTicks == 7
\* milliseconds that pass in one clock step
TickMs == 1000

----------------------------------------------------------------------------
(* Module-level constants of the program *)

BUCKET == [image |-> "ogxyz-image", profile |-> "ogxyz-image-profile"]

Num(n) == [tag |-> "number", n |-> n]
Null == [tag |-> "null", n |-> 0]
Undefined == [tag |-> "undefined", n |-> 0]

imageTypeKeys == {"original", "profile", "thumbnail", "miniThumbnail", "resized"}

imageType ==
  [original      |-> [x |-> Null,      y |-> Null],
   profile       |-> [x |-> Num(200),  y |-> Num(200)],
   thumbnail     |-> [x |-> Num(300),  y |-> Num(300)],
   miniThumbnail |-> [x |-> Num(150),  y |-> Num(150)],
   resized       |-> [x |-> Num(1440), y |-> Num(1440)]]

validTypeKeys == {"png", "jpg", "jpeg", "gif", "webp", "svg+xml", "svg"}

validType ==
  [k \in validTypeKeys |->
     CASE k = "png"     -> "image/png"
       [] k = "jpg"     -> "image/jpg"
       [] k = "jpeg"    -> "image/jpeg"
       [] k = "gif"     -> "image/gif"
       [] k = "webp"    -> "image/webp"
       [] k = "svg+xml" -> "image/svg+xml"
       [] k = "svg"     -> "image/svg+xml"]

polyfillHost == "https://d4gknzklml.execute-api.us-east-1.amazonaws.com"

\* 5 * 1000 of the setTimeout call
TimeoutMs == 5 * 1000

\* 1024 * 1024 of both "1MB Limit" tests
Limit == 1024 * 1024

----------------------------------------------------------------------------
(* JavaScript semantics the handler relies on *)

\* Both tables are object literals, so a property read `table[key]` also
\* finds what Object.prototype provides.  The names below are the inherited
\* properties among the keys the model feeds in.
ObjectPrototypeKeys == {"constructor"}

\* imageType[key]: own entry, inherited member (truthy, without x and y) or undefined
ImageTypeLookup(key) ==
  IF key \in imageTypeKeys
    THEN [truthy |-> TRUE, x |-> imageType[key].x, y |-> imageType[key].y]
    ELSE IF key \in ObjectPrototypeKeys
      THEN [truthy |-> TRUE, x |-> Undefined, y |-> Undefined]
      ELSE [truthy |-> FALSE, x |-> Undefined, y |-> Undefined]

\* an extension check that lets everything through
ValidTypeTruthyAlways(ext) == TRUE

\* !!validType[ext]
ValidTypeTruthy(ext) == ext \in validTypeKeys \/ ext \in ObjectPrototypeKeys

\* null read as "no upper bound" instead of 0
JsGreaterNullUnbounded(a, b) ==
  CASE a.tag = "number"    -> a.n > b
    [] a.tag = "null"      -> TRUE
    [] a.tag = "undefined" -> FALSE

\* a > b of JavaScript for a in {number, null, undefined} and a number b:
\* null converts to 0, undefined to NaN (every comparison false)
JsGreater(a, b) ==
  CASE a.tag = "number"    -> a.n > b
    [] a.tag = "null"      -> 0 > b
    [] a.tag = "undefined" -> FALSE

\* String.prototype.toLowerCase on the extensions of the model
ToLowerCase(s) ==
  CASE s = "PNG" -> "png"
    [] s = "JPG" -> "jpg"
    [] OTHER     -> s

\* decodeURIComponent / decodeURI on the file stems of the model (none holds
\* a reserved character, so the two agree); "URIError" stands for the throw
URIError == "URIError"
DecodeURI(s) ==
  CASE s = "a%2520b" -> "a%20b"
    [] s = "a%20b"   -> "a b"
    [] s = "100%25"  -> "100%"
    [] s = "100%"    -> URIError
    [] OTHER         -> s
DecodeURIComponent(s) == DecodeURI(s)

\* Buffer.prototype.toString('base64'): 4 characters for every 3 bytes, padded
Base64Length(n) == 4 * ((n + 2) \div 3)
ToBase64(buf) == [kind |-> "base64", text |-> "", of |-> buf.id, bytes |-> buf.len,
                  length |-> Base64Length(buf.len)]

\* JSON.stringify of an {errorCode, errorMsg} object
JSONStringify(o) ==
  "{\"errorCode\":\"" \o o.errorCode \o "\",\"errorMsg\":\"" \o o.errorMsg \o "\"}"
TextBody(s) == [kind |-> "text", text |-> s, of |-> "none", bytes |-> 0, length |-> 0]
NoBody == [kind |-> "absent", text |-> "", of |-> "none", bytes |-> 0, length |-> 0]

----------------------------------------------------------------------------
(* Inputs *)

Statuses == {"200", "404", "302"}
Profiles == imageTypeKeys \cup {"unknownprofile", "constructor"}
RawExts == {"png", "JPG", "jpeg", "gif", "webp", "svg", "svg+xml", "bmp", "constructor", ""}
Stems == {"photo", "a%2520b", "100%25"}

\* viewer request URIs as CloudFront hands them over (percent-encoded):
\* /image/<profile>/<stem>.<ext>, and /<stem>.<ext> with no profile segment
Uris ==
  [dir : {<<"", "image", p>> : p \in Profiles} \cup {<<"", "">>}, stem : Stems, ext : RawExts]

\* the Location header of the upstream response, when it has one
OriginLocations == {"absent", "https://origin.example/moved"}

\* event.Records[0].cf; an upstream response that redirects has a Location header
Events ==
  {e \in [uri : Uris, status : Statuses, location : OriginLocations] :
     (e.status = "302") <=> (e.location # "absent")}

\* what the store hands to the getObject callback: (err, data)
BodyLens == {1, Limit, Limit + 1}
NoData == [present |-> FALSE, hasBody |-> FALSE, Body |-> [id |-> "none", len |-> 0]]
StoreOutcomes ==
       {[err |-> [present |-> TRUE, statusCode |-> c], data |-> NoData] : c \in {404, 403, 500}}
  \cup {[err |-> [present |-> FALSE, statusCode |-> 0], data |-> NoData]}
  \cup {[err |-> [present |-> FALSE, statusCode |-> 0],
         data |-> [present |-> TRUE, hasBody |-> FALSE, Body |-> [id |-> "none", len |-> 0]]]}
  \cup {[err |-> [present |-> FALSE, statusCode |-> 0],
         data |-> [present |-> TRUE, hasBody |-> TRUE, Body |-> [id |-> "origin", len |-> n]]]
           : n \in BodyLens}

NoStoreOutcome == [err |-> [present |-> FALSE, statusCode |-> 0], data |-> NoData]

\* what sizeOf(data.Body) returns: a falsy value or {type, width, height}
Dims == {100, 200, 1500}
NoSize == [truthy |-> FALSE, type |-> "", width |-> 0, height |-> 0]
ProbeResults ==
  {NoSize} \cup [truthy : {TRUE}, type : {"webp", "png"}, width : Dims, height : Dims]

\* byte lengths of the buffer the Sharp promise resolves with
ResizedLens == {1, 786432, 786433, Limit + 1}
NoEvent == [uri |-> [dir |-> <<>>, stem |-> "", ext |-> ""], status |-> "", location |-> "absent"]

----------------------------------------------------------------------------
(* Request parsing, lines 114-123 *)

\* path.parse(decodeURIComponent(uri)) followed by dir.split('/'), [2]
PathParse2(uri) == IF Len(uri.dir) >= 3 THEN uri.dir[3] ELSE "undefined"

\* URIPath.ext.replace('.', '').toLowerCase()
Ext(uri) == ToLowerCase(uri.ext)

\* URIPath.base: the file name of the once-decoded path
UriBase(uri) == [stem |-> DecodeURIComponent(uri.stem),
                 ext  |-> IF uri.ext = "" THEN "" ELSE "." \o uri.ext]

\* decodeURI(URIPath.base)
DecodedBase(uri) ==
  IF DecodeURI(UriBase(uri).stem) = URIError
    THEN URIError
    ELSE DecodeURI(UriBase(uri).stem) \o UriBase(uri).ext

BucketName(uri) == IF PathParse2(uri) = "profile" THEN BUCKET.profile ELSE BUCKET.image

\* the template string of the three redirects
Location(uri) == polyfillHost \o "/prod/image/" \o PathParse2(uri) \o "/" \o DecodedBase(uri)

----------------------------------------------------------------------------
(* Envelopes *)

Absent == "absent"

\* lines 93-112: the two header sets and the two default envelopes
InitSuccessHeaders == [cacheControl |-> "max-age=31536000", contentType |-> "", location |-> Absent]
InitFailHeaders == [cacheControl |-> "no-cache", contentType |-> "application/json", location |-> Absent]
InitResponseSuccessHeader == [status |-> "200", statusDescription |-> "OK"]
InitResponse == [status |-> "200", statusDescription |-> "OK", bodyEncoding |-> "base64",
                 body |-> TextBody("{}")]
InitFailResponse ==
  [status |-> "500", statusDescription |-> "Failure", headers |-> InitFailHeaders,
   bodyEncoding |-> "text",
   body |-> TextBody("{ \"errorCode\": 500, \"errorMsg\": \"Invalid Error\" }")]

\* JSON.parse(JSON.stringify(originResponse)): both header sets start as
\* copies of the upstream headers, lines 93-102
SuccessHeadersOf(e) == [InitSuccessHeaders EXCEPT !.location = e.location]
FailResponseOf(e) == [InitFailResponse EXCEPT !.headers.location = e.location]

\* a failure envelope that keeps the defaults of the success envelope
FailOnSuccessDefaults(base, status, description, msg) ==
  [base EXCEPT !.status = status, !.statusDescription = description,
     !.headers = [InitSuccessHeaders EXCEPT !.location = base.headers.location],
     !.bodyEncoding = "base64",
     !.body = TextBody(JSONStringify([errorCode |-> status, errorMsg |-> msg]))]

\* failResponse after the three assignments of a failure branch
Fail(base, status, description, msg) ==
  [base EXCEPT !.status = status, !.statusDescription = description,
     !.body = TextBody(JSONStringify([errorCode |-> status, errorMsg |-> msg]))]

\* a redirect spread from responseFailHeader instead of responseSuccessHeader
RedirectOnFailHeaders(uri, headers) ==
  [status |-> "302", statusDescription |-> "Found",
   headers |-> [InitFailHeaders EXCEPT !.location = Location(uri)],
   bodyEncoding |-> Absent, body |-> NoBody]

\* { ...responseSuccessHeader } after the three assignments of a redirect
Redirect(uri, headers) ==
  [status |-> "302", statusDescription |-> "Found",
   headers |-> [headers EXCEPT !.location = Location(uri)],
   bodyEncoding |-> Absent, body |-> NoBody]

\* the response object as the callback receives it
Success(resp, headers) ==
  [status |-> resp.status, statusDescription |-> resp.statusDescription,
   headers |-> headers, bodyEncoding |-> resp.bodyEncoding, body |-> resp.body]

NoEnvelope == [status |-> "", statusDescription |-> "", headers |-> InitFailHeaders,
               bodyEncoding |-> Absent, body |-> NoBody]

\* callback(null, envelope) and callback(error)
CallbackResult(env) == [error |-> "none", result |-> env, at |-> now]
CallbackError(e) == [error |-> e, result |-> NoEnvelope, at |-> now]

\* clearTimeout left out: the timer stays as it is
ClearTimeoutMissing(t) == t

\* clearTimeout(timer)
ClearTimeout(t) == IF t = "armed" THEN "cleared" ELSE t

----------------------------------------------------------------------------
Init ==
  /\ pc = "idle"
  /\ event = NoEvent
  /\ now = 0
  /\ timer = "none"
  /\ responseSuccessHeader = InitResponseSuccessHeader
  /\ successHeaders = InitSuccessHeaders
  /\ response = InitResponse
  /\ failResponse = InitFailResponse
  /\ s3Calls = <<>>
  /\ probeCalls = 0
  /\ codecCalls = <<>>
  /\ data = NoStoreOutcome
  /\ size = NoSize
  /\ settled = "none"
  /\ delivered = <<>>
  /\ uncaught = FALSE

\* The synchronous body of the handler, lines 87-279: the defaults, the
\* parse, setTimeout, the three checks, S3.getObject, and clearTimeout in
\* the finally block, which runs before the function returns on every path.
Handler ==
  /\ pc = "idle"
  /\ \E e \in Events :
       /\ event' = e
       /\ successHeaders' = SuccessHeadersOf(e)
       /\ IF e.status = "404"
            THEN /\ failResponse' = Fail(FailResponseOf(e), "404", "Not Found", "Not Found")
                 /\ delivered' = Append(delivered, CallbackResult(failResponse'))
                 /\ pc' = "done"
                 /\ UNCHANGED s3Calls
          ELSE IF ~ImageTypeLookup(PathParse2(e.uri)).truthy
            THEN /\ failResponse' = Fail(FailResponseOf(e), "404", "Not Found", "Not Found")
                 /\ delivered' = Append(delivered, CallbackResult(failResponse'))
                 /\ pc' = "done"
                 /\ UNCHANGED s3Calls
          ELSE IF ~ValidTypeTruthy(Ext(e.uri))
            THEN /\ failResponse' = Fail(FailResponseOf(e), "403", "Unsupported extension.",
                                         "Unsupported extension.")
                 /\ delivered' = Append(delivered, CallbackResult(failResponse'))
                 /\ pc' = "done"
                 /\ UNCHANGED s3Calls
          ELSE IF DecodedBase(e.uri) = URIError
            THEN \* decodeURI throws while the arguments of getObject are built
                 /\ failResponse' = FailResponseOf(e)
                 /\ delivered' = Append(delivered, CallbackError(URIError))
                 /\ pc' = "done"
                 /\ UNCHANGED s3Calls
          ELSE /\ failResponse' = FailResponseOf(e)
               /\ s3Calls' = Append(s3Calls, [Bucket |-> BucketName(e.uri), Key |-> DecodedBase(e.uri)])
               /\ pc' = "fetching"
               /\ UNCHANGED delivered
  /\ timer' = ClearTimeout("armed")
  /\ UNCHANGED <<now, responseSuccessHeader, response, probeCalls, codecCalls, data, size,
                 settled, uncaught>>

\* the format test left out of the bypass condition
NoUpscaleAnyFormat(target, sz) ==
  /\ sz.truthy
  /\ (JsGreater(target.x, sz.width) \/ JsGreater(target.y, sz.height))

\* both dimensions required to exceed the source instead of either
NoUpscaleBothDimensions(target, sz) ==
  /\ sz.truthy
  /\ sz.type = "webp"
  /\ (JsGreater(target.x, sz.width) /\ JsGreater(target.y, sz.height))

\* the test of the "No up-scale" branch, line 225
NoUpscale(target, sz) ==
  /\ sz.truthy
  /\ sz.type = "webp"
  /\ (JsGreater(target.x, sz.width) \/ JsGreater(target.y, sz.height))

\* the not-found test written against the wrong status code
IsNotFoundWrongCode(err) == err.present /\ err.statusCode = 403

\* err && err.statusCode === 404, line 176
IsNotFound(err) == err.present /\ err.statusCode = 404

\* the "1MB Limit" test of the bypass branch, line 227: data.Body.length
BypassOverLimit(buf) == buf.len > Limit

\* the test after the resize made on the byte length of the resized image
ResizedOverLimitInBytes(body) == body.bytes > Limit

\* the "1MB Limit" test after the resize, line 252: response.body.length,
\* the length of the base64 string
ResizedOverLimit(body) == body.length > Limit

\* the three assignments that turn responseSuccessHeader into a redirect
\* and the callback that delivers its copy
DeliverRedirect ==
  /\ responseSuccessHeader' = [status |-> "302", statusDescription |-> "Found"]
  /\ successHeaders' = [successHeaders EXCEPT !.location = Location(event.uri)]
  /\ delivered' = Append(delivered, CallbackResult(Redirect(event.uri, successHeaders)))

\* the callback of S3.getObject, lines 175-271
S3Callback ==
  /\ pc = "fetching"
  /\ \E o \in StoreOutcomes, sz \in ProbeResults :
       LET target == ImageTypeLookup(PathParse2(event.uri))
           ext == Ext(event.uri)
           body == ToBase64(o.data.Body)
           deliverFail(f) ==
             /\ failResponse' = f
             /\ delivered' = Append(delivered, CallbackResult(f))
             /\ pc' = "done"
             /\ UNCHANGED <<responseSuccessHeader, successHeaders, response, probeCalls,
                            codecCalls, size, settled>>
       IN
       /\ data' = o
       /\ IF IsNotFound(o.err)
            THEN deliverFail(Fail(failResponse, "404", "Not Found", "Not Found"))
          ELSE IF ~o.data.present
            THEN deliverFail(Fail(failResponse, "500", "", "The file is not normal."))
          ELSE IF ~o.data.hasBody
            THEN deliverFail(Fail(failResponse, "404", "Not Found", "Not Found"))
          ELSE IF ext = "svg"
            THEN /\ response' = [response EXCEPT !.body = body]
                 /\ successHeaders' = [successHeaders EXCEPT !.contentType = "image/svg+xml"]
                 /\ delivered' = Append(delivered, CallbackResult(Success(response', successHeaders')))
                 /\ pc' = "done"
                 /\ UNCHANGED <<responseSuccessHeader, failResponse, probeCalls, codecCalls, size,
                                settled>>
          ELSE /\ probeCalls' = probeCalls + 1
               /\ size' = sz
               /\ IF NoUpscale(target, sz)
                    THEN /\ IF BypassOverLimit(o.data.Body)
                              THEN DeliverRedirect /\ UNCHANGED response
                              ELSE /\ response' = [response EXCEPT !.body = body]
                                   /\ successHeaders' =
                                        [successHeaders EXCEPT !.contentType = "image/webp"]
                                   /\ delivered' = Append(delivered,
                                        CallbackResult(Success(response', successHeaders')))
                                   /\ UNCHANGED responseSuccessHeader
                         /\ pc' = "done"
                         /\ UNCHANGED <<failResponse, codecCalls, settled>>
                    ELSE /\ codecCalls' = Append(codecCalls,
                              [input |-> o.data.Body, x |-> target.x, y |-> target.y,
                               animated |-> (ext \in {"gif", "webp"}), format |-> "webp"])
                         /\ pc' = "resizing"
                         /\ settled' = "pending"
                         /\ UNCHANGED <<responseSuccessHeader, successHeaders, response,
                                        failResponse, delivered>>
  /\ UNCHANGED <<event, now, timer, s3Calls, uncaught>>

\* the line commented out at 261: the content type the table gives the extension
ResizedContentTypeOfTable(ext) == IF ext \in validTypeKeys THEN validType[ext] ELSE ""

\* the content type of a resized image, line 262
ResizedContentType(ext) == "image/webp"

\* the fulfilment handler of the Sharp promise, lines 248-264
SharpThen ==
  /\ pc = "resizing"
  /\ \E n \in ResizedLens :
       LET resizedImage == [id |-> "codec", len |-> n] IN
       /\ response' = [response EXCEPT !.body = ToBase64(resizedImage)]
       /\ IF ResizedOverLimit(response'.body)
            THEN DeliverRedirect
            ELSE /\ successHeaders' =
                      [successHeaders EXCEPT !.contentType = ResizedContentType(Ext(event.uri))]
                 /\ delivered' = Append(delivered, CallbackResult(Success(response', successHeaders')))
                 /\ UNCHANGED responseSuccessHeader
  /\ pc' = "done"
  /\ settled' = "fulfilled"
  /\ UNCHANGED <<event, now, timer, failResponse, s3Calls, probeCalls, codecCalls,
                 data, size, uncaught>>

\* a rejection handler that falls back to the origin bytes
SharpCatchFallsBack ==
  /\ pc = "resizing"
  /\ response' = [response EXCEPT !.body = ToBase64(data.data.Body)]
  /\ delivered' = Append(delivered, CallbackResult(Success(response', successHeaders)))
  /\ pc' = "done"
  /\ settled' = "rejected"
  /\ UNCHANGED <<event, now, timer, responseSuccessHeader, successHeaders,
                 failResponse, s3Calls, probeCalls, codecCalls, data, size, uncaught>>

\* a rejection handler that swallows the error
SharpCatchSwallow ==
  /\ pc = "resizing"
  /\ pc' = "done"
  /\ settled' = "rejected"
  /\ UNCHANGED <<event, now, timer, responseSuccessHeader, successHeaders, response,
                 failResponse, s3Calls, probeCalls, codecCalls, data, size, delivered,
                 uncaught>>

\* the rejection handler of the Sharp promise, lines 265-268
SharpCatch ==
  /\ pc = "resizing"
  /\ delivered' = Append(delivered, CallbackError("ResizingError"))
  /\ pc' = "done"
  /\ settled' = "rejected"
  /\ UNCHANGED <<event, now, timer, responseSuccessHeader, successHeaders, response,
                 failResponse, s3Calls, probeCalls, codecCalls, data, size, uncaught>>

\* the function handed to setTimeout, lines 126-134
TimerCallback ==
  /\ timer' = "fired"
  /\ responseSuccessHeader' = [status |-> "302", statusDescription |-> "Found"]
  /\ IF DecodedBase(event.uri) = URIError
       THEN uncaught' = TRUE /\ UNCHANGED <<successHeaders, delivered>>
       ELSE /\ successHeaders' = [successHeaders EXCEPT !.location = Location(event.uri)]
            /\ delivered' = Append(delivered,
                 [error |-> "none", result |-> Redirect(event.uri, successHeaders), at |-> now'])
            /\ UNCHANGED uncaught

\* Time passes while the event loop has work left (a request in flight or
\* an armed timer); a timer that is still armed when its delay has elapsed
\* runs.
Elapse ==
  /\ pc \in {"fetching", "resizing"} \/ timer = "armed"
  /\ now < MaxTicks * TickMs
  /\ now' = now + TickMs
  /\ IF timer = "armed" /\ now' >= TimeoutMs
       THEN TimerCallback
       ELSE UNCHANGED <<timer, responseSuccessHeader, successHeaders, delivered, uncaught>>
  /\ UNCHANGED <<pc, event, response, failResponse, s3Calls, probeCalls, codecCalls, data, size,
                 settled>>

Next == Handler \/ S3Callback \/ SharpThen \/ SharpCatch \/ Elapse

Spec == Init /\ [][Next]_vars

\* The SDK calls the getObject callback and the Sharp promise settles.
FairSpec == Spec /\ WF_vars(Handler) /\ WF_vars(S3Callback) /\ WF_vars(SharpThen \/ SharpCatch)

----------------------------------------------------------------------------
(* Vocabulary of the properties *)

Deliveries == 1 .. Len(delivered)
IsEnvelope(d) == d.error = "none"
NotFoundBody == JSONStringify([errorCode |-> "404", errorMsg |-> "Not Found"])
IsNotFound404(d) ==
  /\ IsEnvelope(d)
  /\ d.result.status = "404"
  /\ d.result.body.kind = "text"
  /\ d.result.body.text = NotFoundBody
ErrorMsgs == {"Not Found", "Unsupported extension.", "The file is not normal."}
IsStructuredFailure(d) ==
  /\ IsEnvelope(d)
  /\ d.result.status \in {"404", "403", "500"}
  /\ d.result.body.kind = "text"
  /\ \E m \in ErrorMsgs :
       d.result.body.text = JSONStringify([errorCode |-> d.result.status, errorMsg |-> m])
IsRedirect(d) == IsEnvelope(d) /\ d.result.status = "302"
IsSuccess(d) == IsEnvelope(d) /\ d.result.status = "200"
\* a 200 whose body is the base64 text of the bytes the store returned
IsOriginPassThrough(d) ==
  /\ IsSuccess(d)
  /\ d.result.body.kind = "base64"
  /\ d.result.body.of = "origin"
  /\ d.result.body.bytes = data.data.Body.len
RasterExts == {"png", "jpg", "jpeg", "gif", "webp"}
Profile == PathParse2(event.uri)
HasTargetBox == Profile \in imageTypeKeys /\ imageType[Profile].x.tag = "number"

----------------------------------------------------------------------------
(* C1 - Deadline: a response delivered once the 5000 ms have passed is the
   302 redirect envelope; no pipeline result is delivered after the deadline. *)
C1_Deadline ==
  \A i \in Deliveries : delivered[i].at >= TimeoutMs => IsRedirect(delivered[i])

(* C2 - At most one response: the completion callback is invoked at most once
   per request, and once a response has been delivered the timer is cancelled
   (it is not armed, so it cannot fire). *)
C2_AtMostOne ==
  /\ Len(delivered) <= 1
  /\ delivered # <<>> => timer = "cleared"

\* the Sharp promise settled after the deadline and its result was delivered
C2_Witness ==
  /\ Len(delivered) = 1
  /\ Len(codecCalls) = 1
  /\ delivered[1].at > TimeoutMs
  /\ timer = "cleared"

(* C3 - Exactly one response: every invocation eventually delivers a response,
   never a second one, and what is delivered is a 200, a 302, a 404/403/500
   failure with a structured body, or an error handed to the runtime. *)
C3_ExactlyOne ==
  /\ [](Len(delivered) <= 1)
  /\ [](\A i \in Deliveries :
          \/ ~IsEnvelope(delivered[i])
          \/ IsSuccess(delivered[i])
          \/ IsRedirect(delivered[i])
          \/ IsStructuredFailure(delivered[i]))
  /\ <>(Len(delivered) = 1)

\* the codec failed and its error reached the completion callback
C3_Witness ==
  /\ pc = "done"
  /\ Len(codecCalls) = 1
  /\ Len(delivered) = 1
  /\ delivered[1].error = "ResizingError"

(* C4 - Size ceiling: no 200 response carries a body built from more than
   1,048,576 bytes; such a candidate body is answered with the 302 redirect. *)
C4_SizeCeiling ==
  \A i \in Deliveries : IsSuccess(delivered[i]) => delivered[i].result.body.bytes <= Limit

(* C5 - Unknown profile: a request whose profile segment is not in the profile
   table is answered with the 404 failure {errorCode: "404", errorMsg: "Not Found"}. *)
C5_UnknownProfile ==
  (pc = "done" /\ Profile \notin imageTypeKeys) =>
    (Len(delivered) = 1 /\ IsNotFound404(delivered[1]))

(* C6 - Unsupported extension: a request whose extension is not in the supported
   extension table is answered with the 403 failure "Unsupported extension.",
   whatever the profile name and the upstream status are. *)
C6_UnsupportedExtension ==
  (pc = "done" /\ Ext(event.uri) \notin validTypeKeys) =>
    /\ Len(delivered) = 1
    /\ IsEnvelope(delivered[1])
    /\ delivered[1].result.status = "403"
    /\ delivered[1].result.body.text =
         JSONStringify([errorCode |-> "403", errorMsg |-> "Unsupported extension."])

(* C7 - Not found: when the upstream response has status 404, or the store
   answers the fetch with a 404 error, the delivered response is the 404
   failure with errorMsg "Not Found". *)
C7_NotFound ==
  (pc = "done" /\ (event.status = "404" \/ (data.err.present /\ data.err.statusCode = 404))) =>
    (Len(delivered) = 1 /\ IsNotFound404(delivered[1]))

\* the store answered 404 and the 404 failure was delivered
C7_Witness ==
  /\ pc = "done"
  /\ event.status = "200"
  /\ data.err.present /\ data.err.statusCode = 404
  /\ Len(delivered) = 1 /\ IsNotFound404(delivered[1])

(* C8 as stated - No-upscale: for a known profile with target dimensions, when
   the probed source is webp and its width and height both equal or exceed the
   target box, the codec is not invoked and the body is the origin bytes
   unchanged (or the redirect when over the ceiling). *)
C8_AsStated ==
  (/\ probeCalls = 1
   /\ HasTargetBox
   /\ size.truthy /\ size.type = "webp"
   /\ size.width >= imageType[Profile].x.n
   /\ size.height >= imageType[Profile].y.n) =>
    /\ codecCalls = <<>>
    /\ Len(delivered) = 1
    /\ IsOriginPassThrough(delivered[1]) \/ IsRedirect(delivered[1])

(* C8 amended - No-upscale: for a known profile with target dimensions, when
   the probed source is webp and the target width exceeds the probed width or
   the target height exceeds the probed height, the codec is not invoked and
   the response is the origin bytes unchanged (base64 of the origin bytes), or
   the redirect when the origin bytes exceed the ceiling. *)
C8_NoUpscale ==
  (/\ probeCalls = 1
   /\ HasTargetBox
   /\ size.truthy /\ size.type = "webp"
   /\ (imageType[Profile].x.n > size.width \/ imageType[Profile].y.n > size.height)) =>
    /\ codecCalls = <<>>
    /\ Len(delivered) = 1
    /\ IF data.data.Body.len > Limit
         THEN IsRedirect(delivered[1])
         ELSE IsOriginPassThrough(delivered[1])

\* a webp narrower than the box but taller than it was passed through
C8_Witness ==
  /\ probeCalls = 1
  /\ Profile = "thumbnail"
  /\ size.truthy /\ size.type = "webp" /\ size.width = 100 /\ size.height = 1500
  /\ codecCalls = <<>>
  /\ Len(delivered) = 1 /\ IsOriginPassThrough(delivered[1])

(* C9 as stated - Profile original: for a supported raster extension the codec
   is never invoked and the 200 body is the origin bytes unchanged. *)
C9_AsStated ==
  (Profile = "original" /\ Ext(event.uri) \in RasterExts) =>
    /\ codecCalls = <<>>
    /\ \A i \in Deliveries : IsSuccess(delivered[i]) => IsOriginPassThrough(delivered[i])

(* C9 amended - Profile original: for a supported raster extension for which
   the store returned a body, the codec is always invoked, with null target
   width and height (no resize box) and webp as output format, and a 200 body
   is the base64 of the codec's output, never the origin bytes. *)
C9_OriginalReencoded ==
  (Profile = "original" /\ Ext(event.uri) \in RasterExts /\ data.data.hasBody) =>
    /\ Len(codecCalls) = 1
    /\ codecCalls[1].x = Null /\ codecCalls[1].y = Null
    /\ codecCalls[1].format = "webp"
    /\ codecCalls[1].input = data.data.Body
    /\ \A i \in Deliveries :
         IsSuccess(delivered[i]) =>
           delivered[i].result.body.kind = "base64" /\ delivered[i].result.body.of = "codec"

\* a webp source under profile original went through the codec and was answered 200
C9_Witness ==
  /\ Profile = "original"
  /\ Ext(event.uri) = "webp"
  /\ size.truthy /\ size.type = "webp"
  /\ Len(codecCalls) = 1
  /\ Len(delivered) = 1 /\ IsSuccess(delivered[1])
  /\ delivered[1].result.body.of = "codec"

(* C10 - Store failure: a store error whose status is not 404 is passed to the
   completion callback as an error, not delivered as a structured failure body. *)
C10_StoreFailure ==
  (data.err.present /\ data.err.statusCode # 404) =>
    \A i \in Deliveries : ~IsEnvelope(delivered[i])

(* C11 - Envelope shapes: every delivered failure envelope (404, 403, 500) has
   bodyEncoding text, a JSON body with exactly the fields errorCode and
   errorMsg, Content-Type application/json and Cache-Control no-cache; every
   delivered 200 envelope has bodyEncoding base64 and Cache-Control
   max-age=31536000. *)
C11_EnvelopeShapes ==
  \A i \in Deliveries :
    LET r == delivered[i].result IN
    IsEnvelope(delivered[i]) =>
      /\ r.status \in {"404", "403", "500"} =>
           /\ r.bodyEncoding = "text"
           /\ r.body.kind = "text"
           /\ \E c \in {"404", "403", "500"}, m \in ErrorMsgs :
                r.body.text = "{\"errorCode\":\"" \o c \o "\",\"errorMsg\":\"" \o m \o "\"}"
           /\ r.headers.contentType = "application/json"
           /\ r.headers.cacheControl = "no-cache"
      /\ r.status = "200" =>
           /\ r.bodyEncoding = "base64"
           /\ r.body.kind = "base64"
           /\ r.headers.cacheControl = "max-age=31536000"

\* the store failed with status 500 and the structured 500 failure was delivered
C11_Witness ==
  /\ data.err.present /\ data.err.statusCode = 500
  /\ Len(delivered) = 1
  /\ IsEnvelope(delivered[1])
  /\ delivered[1].result.status = "500"
  /\ delivered[1].result.bodyEncoding = "text"
  /\ delivered[1].result.headers.cacheControl = "no-cache"

\* the file name of the request, URI-decoded: the final segment of the
\* percent-encoded request path, decoded once
RequestFileName ==
  (CASE event.uri.stem = "a%2520b" -> "a%20b"
     [] event.uri.stem = "100%25"  -> "100%"
     [] OTHER                      -> event.uri.stem)
  \o (IF event.uri.ext = "" THEN "" ELSE "." \o event.uri.ext)

(* C12 - Redirect envelope: every delivered redirect has status 302, carries no
   body field, and has the Location header
   <fallback-host>/prod/image/<profileName>/<uriDecodedFilename> of its request. *)
C12_RedirectEnvelope ==
  \A i \in Deliveries :
    LET r == delivered[i].result IN
    IsRedirect(delivered[i]) =>
      /\ r.bodyEncoding = Absent
      /\ r.body.kind = "absent"
      /\ r.headers.location =
           "https://d4gknzklml.execute-api.us-east-1.amazonaws.com/prod/image/"
             \o Profile \o "/" \o RequestFileName

(* C13 as stated - Post-resize size check on bytes: after a successful resize
   the response is the 302 redirect exactly when the resized image has more
   than 1,048,576 bytes, and a 200 otherwise. *)
C13_AsStated ==
  settled = "fulfilled" =>
    /\ Len(delivered) = 1
    /\ IF response.body.bytes > 1048576
         THEN IsRedirect(delivered[1])
         ELSE IsSuccess(delivered[1])

(* C13 amended - Post-resize size check on the encoded body: after a successful
   resize the response is the 302 redirect exactly when the base64 text of the
   resized image has more than 1,048,576 characters (the image has more than
   786,432 bytes), and a 200 carrying that base64 text otherwise. *)
C13_EncodedLength ==
  settled = "fulfilled" =>
    /\ Len(delivered) = 1
    /\ response.body.of = "codec"
    /\ IF response.body.bytes > 786432
         THEN IsRedirect(delivered[1])
         ELSE IsSuccess(delivered[1]) /\ delivered[1].result.body = response.body

\* a resized image of 786,433 bytes, under the ceiling in bytes, was redirected
C13_Witness ==
  /\ settled = "fulfilled"
  /\ response.body.bytes = 786433
  /\ Len(delivered) = 1 /\ IsRedirect(delivered[1])

\* the target box of the profile exceeds the probed source in a dimension
TargetExceedsSource ==
  /\ HasTargetBox
  /\ (imageType[Profile].x.n > size.width \/ imageType[Profile].y.n > size.height)

(* C14 - Bypass condition: for a non-svg request whose object was fetched, the
   resize is skipped if and only if the probe succeeded, the probed format is
   webp and the target width or height exceeds the probed one; then the body
   is the origin bytes with Content-Type image/webp (or the redirect when over
   the ceiling); in every other case the codec is invoked. *)
C14_BypassCondition ==
  probeCalls = 1 =>
    IF size.truthy /\ size.type = "webp" /\ TargetExceedsSource
      THEN /\ codecCalls = <<>>
           /\ Len(delivered) = 1
           /\ IF data.data.Body.len > 1048576
                THEN IsRedirect(delivered[1])
                ELSE /\ IsOriginPassThrough(delivered[1])
                     /\ delivered[1].result.headers.contentType = "image/webp"
      ELSE /\ Len(codecCalls) = 1
           /\ codecCalls[1].input = data.data.Body

\* a png source smaller than the target box went to the codec
C14_Witness ==
  /\ probeCalls = 1
  /\ size.truthy /\ size.type = "png"
  /\ TargetExceedsSource
  /\ Len(codecCalls) = 1

(* C15 - Check order and single fetch: the store is contacted only when the
   upstream-404 check, the profile check and the extension check have all
   passed, in that order; it is fetched at most once, and a request that ends
   at one of the three checks issues no fetch. *)
C15_ChecksThenSingleFetch ==
  LET upstreamPasses == event.status # "404"
      profilePasses  == Profile \in imageTypeKeys \cup {"constructor"}
      extPasses      == Ext(event.uri) \in validTypeKeys \cup {"constructor"}
      failedAt(status, msg) ==
        /\ Len(delivered) = 1
        /\ IsEnvelope(delivered[1])
        /\ delivered[1].result.status = status
        /\ delivered[1].result.body.text = JSONStringify([errorCode |-> status, errorMsg |-> msg])
        /\ delivered[1].at = 0
        /\ s3Calls = <<>>
  IN
  /\ Len(s3Calls) <= 1
  /\ Len(s3Calls) = 1 => (upstreamPasses /\ profilePasses /\ extPasses)
  /\ pc # "idle" =>
       /\ ~upstreamPasses => failedAt("404", "Not Found")
       /\ (upstreamPasses /\ ~profilePasses) => failedAt("404", "Not Found")
       /\ (upstreamPasses /\ profilePasses /\ ~extPasses) =>
            failedAt("403", "Unsupported extension.")

\* the store failed and the request ended with the one fetch it had issued
C15_Witness ==
  /\ pc = "done"
  /\ Len(s3Calls) = 1
  /\ data.err.present /\ data.err.statusCode = 500
  /\ Len(delivered) = 1

(* C16 - Branch-consistent content type: for extension svg with a body from the
   store, neither probe nor codec is invoked and the response is 200 with the
   origin bytes in base64 and Content-Type image/svg+xml; every 200 of a raster
   branch has Content-Type image/webp whatever the source extension. *)
C16_ContentType ==
  /\ (Ext(event.uri) = "svg" /\ data.data.hasBody) =>
       /\ probeCalls = 0
       /\ codecCalls = <<>>
       /\ Len(delivered) = 1
       /\ IsOriginPassThrough(delivered[1])
       /\ delivered[1].result.headers.contentType = "image/svg+xml"
  /\ \A i \in Deliveries :
       (IsSuccess(delivered[i]) /\ Ext(event.uri) # "svg") =>
         delivered[i].result.headers.contentType = "image/webp"

\* a resized png was answered 200 with Content-Type image/webp
C16_Witness ==
  /\ Ext(event.uri) = "png"
  /\ settled = "fulfilled"
  /\ Len(delivered) = 1 /\ IsSuccess(delivered[1])
  /\ delivered[1].result.headers.contentType = "image/webp"

(* C17 - Codec failure: when the resize fails, the error is passed to the
   completion callback exactly once and no envelope (success with a fallback
   body, redirect or structured failure) is delivered. *)
C17_CodecFailure ==
  settled = "rejected" =>
    /\ Len(delivered) = 1
    /\ delivered[1].error = "ResizingError"
    /\ delivered[1].result.body.kind = "absent"

\* the Sharp promise was rejected and its error delivered
C17_Witness ==
  /\ settled = "rejected"
  /\ pc = "done"
  /\ Len(delivered) = 1
  /\ ~IsEnvelope(delivered[1])

(* C18 - Bucket routing: every store fetch targets the profile-image bucket when
   the profile segment is exactly `profile` and the general image bucket for
   every other profile name, with the URI-decoded final path segment as key. *)
C18_BucketRouting ==
  \A i \in 1 .. Len(s3Calls) :
    /\ s3Calls[i].Bucket =
         IF Profile = "profile" THEN "ogxyz-image-profile" ELSE "ogxyz-image"
    /\ s3Calls[i].Key = RequestFileName

(* C19 - Vector extensions: every extension the table maps to image/svg+xml
   (svg and svg+xml) is passed through unchanged with Content-Type
   image/svg+xml and reaches neither the probe nor the codec. *)
C19_VectorExtensions ==
  (Ext(event.uri) \in {k \in validTypeKeys : validType[k] = "image/svg+xml"}
     /\ data.data.hasBody) =>
    /\ probeCalls = 0
    /\ codecCalls = <<>>
    /\ Len(delivered) = 1
    /\ IsOriginPassThrough(delivered[1])
    /\ delivered[1].result.headers.contentType = "image/svg+xml"

(* C20 as stated - Redirect headers: every delivered 302 carries Cache-Control
   max-age=31536000 and an empty Content-Type, and no failure envelope carries a
   Location header. *)
C20_AsStated ==
  \A i \in Deliveries :
    LET r == delivered[i].result IN
    /\ IsRedirect(delivered[i]) =>
         r.headers.cacheControl = "max-age=31536000" /\ r.headers.contentType = ""
    /\ IsStructuredFailure(delivered[i]) => r.headers.location = Absent

(* C20 amended - Redirect headers: every delivered 302 carries Cache-Control
   max-age=31536000 and an empty Content-Type, and the handler never sets a
   Location header on a failure envelope: a failure envelope has one only when
   the upstream response had it, and then with the upstream value. *)
C20_RedirectHeaders ==
  \A i \in Deliveries :
    LET r == delivered[i].result IN
    /\ IsRedirect(delivered[i]) =>
         r.headers.cacheControl = "max-age=31536000" /\ r.headers.contentType = ""
    /\ IsStructuredFailure(delivered[i]) => r.headers.location = event.location

\* a resized image over the ceiling was redirected with the success header set
C20_Witness ==
  /\ settled = "fulfilled"
  /\ Len(delivered) = 1 /\ IsRedirect(delivered[1])
  /\ delivered[1].result.headers.cacheControl = "max-age=31536000"
  /\ delivered[1].result.headers.contentType = ""

====
